---- MODULE Spec2Model ----
(***************************************************************************)
(* Model of the jelli.fit API request handlers:                            *)
(*   api/src/routes/event.rs  (get_event, create_event, generate_name,     *)
(*                             generate_id, encode_name)                   *)
(*   api/src/routes/tasks.rs  (cleanup)                                    *)
(*   api/src/main.rs          (ApiState behind Arc<Mutex<..>>)             *)
(* Strings are sequences of Unicode code points (integers).                *)
(***************************************************************************)
EXTENDS Integers, Sequences, FiniteSets, TLC

\* ------------------------------------------------------------------------
\* Bounds of the model
\* ------------------------------------------------------------------------
NumReqs == 2        \* requests served in one behaviour, each by its own task
MaxRetries == 2     \* taken probes followed by a redraw, per allocation
NumSuffixes == 1    \* numeric suffixes drawn from the low end of the range
MaxTicks == 1       \* clock advances in one behaviour
MaxLen == 3         \* longest name given to encode_name on its own

\* ------------------------------------------------------------------------
\* Characters (code points)
\* ------------------------------------------------------------------------
SP == 32       \* ' '
HYPHEN == 45   \* '-'
TAB == 9       \* '\t'

IsWhitespace(c) == c \in {TAB, 10, 11, 12, 13, SP, 133, 160}
IsAsciiDigit(c) == c \in 48..57
IsAsciiAlphanumeric(c) == c \in 48..57 \/ c \in 65..90 \/ c \in 97..122

\* char::to_lowercase on the code points the model uses (ASCII and Latin-1)
LowerChar(c) ==
  IF c \in 65..90 THEN c + 32
  ELSE IF c \in 192..222 /\ c # 215 THEN c + 32
  ELSE c

ToLowercase(s) == [i \in 1..Len(s) |-> LowerChar(s[i])]

RECURSIVE TrimStart(_)
TrimStart(s) ==
  IF s = <<>> THEN <<>>
  ELSE IF IsWhitespace(Head(s)) THEN TrimStart(Tail(s)) ELSE s

RECURSIVE TrimEnd(_)
TrimEnd(s) ==
  IF s = <<>> THEN <<>>
  ELSE IF IsWhitespace(s[Len(s)]) THEN TrimEnd(SubSeq(s, 1, Len(s) - 1)) ELSE s

\* str::trim
Trim(s) == TrimEnd(TrimStart(s))

\* Regex::new(r"\s+").replace_all(s, "-"): each maximal whitespace run
\* becomes one hyphen
RECURSIVE CollapseWhitespace(_)
CollapseWhitespace(s) ==
  IF s = <<>> THEN <<>>
  ELSE IF IsWhitespace(Head(s))
       THEN <<HYPHEN>> \o CollapseWhitespace(TrimStart(s))
       ELSE <<Head(s)>> \o CollapseWhitespace(Tail(s))

\* ------------------------------------------------------------------------
\* punycode::encode (RFC 3492 with the Bootstring parameters of Punycode)
\* ------------------------------------------------------------------------
PunyBase == 36
PunyTMin == 1
PunyTMax == 26
PunySkew == 38
PunyDamp == 700
PunyInitialBias == 72
PunyInitialN == 128

PunyDigit(d) == IF d < 26 THEN 97 + d ELSE 22 + d

PunyThreshold(k, bias) ==
  IF k <= bias THEN PunyTMin
  ELSE IF k >= bias + PunyTMax THEN PunyTMax
  ELSE k - bias

RECURSIVE PunyAdaptLoop(_, _)
PunyAdaptLoop(delta, k) ==
  IF delta > ((PunyBase - PunyTMin) * PunyTMax) \div 2
  THEN PunyAdaptLoop(delta \div (PunyBase - PunyTMin), k + PunyBase)
  ELSE k + ((PunyBase - PunyTMin + 1) * delta) \div (delta + PunySkew)

PunyAdapt(delta, numPoints, first) ==
  LET d0 == IF first THEN delta \div PunyDamp ELSE delta \div 2
      d1 == d0 + (d0 \div numPoints)
  IN PunyAdaptLoop(d1, 0)

\* generalized variable-length integer for the value q
RECURSIVE PunyVarInt(_, _, _)
PunyVarInt(q, k, bias) ==
  LET t == PunyThreshold(k, bias)
  IN IF q < t THEN <<PunyDigit(q)>>
     ELSE <<PunyDigit(t + ((q - t) % (PunyBase - t)))>>
            \o PunyVarInt((q - t) \div (PunyBase - t), k + PunyBase, bias)

\* one pass over the input for the current code point st.n
RECURSIVE PunyInner(_, _, _, _)
PunyInner(input, i, b, st) ==
  IF i > Len(input) THEN st
  ELSE LET c == input[i]
       IN IF c < st.n
          THEN PunyInner(input, i + 1, b, [st EXCEPT !.delta = st.delta + 1])
          ELSE IF c = st.n
          THEN PunyInner(input, i + 1, b,
                 [st EXCEPT !.out = st.out \o PunyVarInt(st.delta, PunyBase, st.bias),
                            !.bias = PunyAdapt(st.delta, st.h + 1, st.h = b),
                            !.delta = 0,
                            !.h = st.h + 1])
          ELSE PunyInner(input, i + 1, b, st)

SetMin(S) == CHOOSE x \in S : \A y \in S : x <= y

\* The crate returns Err when delta would overflow u32.  With code points
\* below 2^21 that needs an input of thousands of characters, so for the
\* names of this model encode always returns Ok and the unwrap_or("")
\* of encode_name is the identity on its value.
RECURSIVE PunyOuter(_, _, _)
PunyOuter(input, b, st) ==
  IF st.h >= Len(input) THEN st.out
  ELSE LET m == SetMin({input[i] : i \in {j \in 1..Len(input) : input[j] >= st.n}})
           s1 == [st EXCEPT !.delta = st.delta + (m - st.n) * (st.h + 1),
                            !.n = m]
           s2 == PunyInner(input, 1, b, s1)
       IN PunyOuter(input, b, [s2 EXCEPT !.delta = s2.delta + 1,
                                         !.n = s2.n + 1])

IsBasic(c) == c < PunyInitialN

PunycodeEncode(input) ==
  LET basic == SelectSeq(input, IsBasic)
      b == Len(basic)
      start == [n |-> PunyInitialN, delta |-> 0, bias |-> PunyInitialBias,
                h |-> b,
                out |-> IF b > 0 THEN basic \o <<HYPHEN>> ELSE basic]
  IN PunyOuter(input, b, start)

\* ------------------------------------------------------------------------
\* encode_name
\* ------------------------------------------------------------------------
\* the characters replace(|c| !c.is_ascii_alphanumeric() && c != ' ', "") keeps
IsSlugChar(c) == IsAsciiAlphanumeric(c) \/ c = SP

encode_name(name) ==
  LET pc == SelectSeq(Trim(PunycodeEncode(ToLowercase(Trim(name)))), IsSlugChar)
  IN CollapseWhitespace(pc)


\* ------------------------------------------------------------------------
\* Option values: None is the empty tuple, Some(x) the one-element tuple
\* ------------------------------------------------------------------------
None == <<>>
Some(x) == <<x>>

\* ------------------------------------------------------------------------
\* generate_name, generate_id
\* ------------------------------------------------------------------------
\* res/adjectives.json and res/jellies.json: representative entries
Adjectives == { <<72, 97, 112, 112, 121>>,     \* "Happy"
                <<83, 97, 100>> }              \* "Sad"
Jellies == { <<77, 111, 111, 110>> }           \* "Moon"
JellySuffix == <<SP, 74, 101, 108, 108, 121>>  \* " Jelly"

\* the names generate_name() can return
generate_name == { a \o <<SP>> \o j \o JellySuffix : a \in Adjectives, j \in Jellies }

SuffixLo == 100000
SuffixHi == 999999
\* the draws of gen_range(100000..=999999) the model explores
Suffixes == (SuffixLo .. (SuffixLo + NumSuffixes - 1)) \cup {SuffixHi}

\* format!("{}", number)
RECURSIVE Decimal(_)
Decimal(n) == IF n < 10 THEN <<48 + n>> ELSE Decimal(n \div 10) \o <<48 + (n % 10)>>

NotHyphen(c) == c # HYPHEN

\* variant: no slug is replaced
IsDegenerateNever(id) == FALSE

\* variant: the slug is always taken from a fresh name
IsDegenerateAlways(id) == TRUE

\* id.replace('-', "").is_empty()
IsDegenerate(id) == SelectSeq(id, NotHyphen) = <<>>

\* the names create_event passes to generate_id in the specifications
\* below: "", "a", "!" and the generated names
RequestNames == generate_name \cup { <<>>, <<97>>, <<33>> }

\* encode_name of those names, worked out once
SlugTable == [name \in RequestNames |-> encode_name(name)]

\* encode_name(name), read from the table where the table has it
Slug(name) == IF name \in RequestNames THEN SlugTable[name] ELSE encode_name(name)

\* the slugs generate_id(name) can use
SlugsFor(name) ==
  IF IsDegenerate(Slug(name))
  THEN { Slug(g) : g \in generate_name }
  ELSE { Slug(name) }

\* the identifiers generate_id(name) can return
generate_id(name) ==
  { slug \o <<HYPHEN>> \o Decimal(number) : slug \in SlugsFor(name), number \in Suffixes }

\* create_event, match on input.name: is the supplied name used?
NameProvided(input) == input # None /\ input[1] # <<>>

\* the display names create_event can settle on
ResolveName(input) ==
  IF NameProvided(input) THEN { Trim(input[1]) } ELSE generate_name

\* ------------------------------------------------------------------------
\* cleanup: the cron key gate.  TRUE when the request is rejected.
\* header and key are Options (header absent, CRON_KEY unset).
\* ------------------------------------------------------------------------
\* variant: the comparison is the wrong way round
CronKeyRejectsEqual(header, key) ==
  /\ header # None
  /\ key # None
  /\ key[1] # <<>>
  /\ header[1] = key[1]

\* variant: an empty CRON_KEY is not treated as "no key"
CronKeyRejectsEmptyKey(header, key) ==
  /\ header # None
  /\ key # None
  /\ header[1] # key[1]

CronKeyRejects(header, key) ==
  /\ header # None
  /\ key # None
  /\ key[1] # <<>>
  /\ header[1] # key[1]

RetentionDays == 90

\* variant: the duration is added
CutoffAdded(t) == t + RetentionDays

\* Utc::now() - Duration::days(90)
Cutoff(t) == t - RetentionDays

\* ------------------------------------------------------------------------
\* Storage adaptor (common::Adaptor), as the handlers use it
\* ------------------------------------------------------------------------
AdaptorGetEvent(ev, id) == IF id \in DOMAIN ev THEN Some(ev[id]) ELSE None

AdaptorCreateEvent(ev, e) ==
  [i \in DOMAIN ev \cup {e.id} |-> IF i = e.id THEN e ELSE ev[i]]

AdaptorDeleteEvents(ev, ppl, cutoff) ==
  LET gone == { i \in DOMAIN ev : ev[i].visited_at < cutoff }
      lost == { p \in ppl : p.event_id \in gone }
  IN [events |-> [i \in DOMAIN ev \ gone |-> ev[i]],
      people |-> ppl \ lost,
      event_count |-> Cardinality(gone),
      person_count |-> Cardinality(lost)]

\* EventResponse::from(Event)
EventResponse(e) == [id |-> e.id, name |-> e.name]

\* tokio::sync::Mutex::lock resolves when no task holds the guard
NoHolder == 0

\* variant: no exclusion
CanAcquireAlways(holder) == TRUE

CanAcquire(holder) == holder = NoHolder

\* variant: the probe's answer is ignored, `if` for `while`
LoopContinuesNever(found) == FALSE

\* while get_event(id)?.is_some(): does the allocation loop go round again?
LoopContinues(found) == found # None


\* ------------------------------------------------------------------------
\* Inputs of the requests
\* ------------------------------------------------------------------------
Reqs == 1..NumReqs

\* EventInput.name: absent, "", " ", "a"
NameInputs == { None, Some(<<>>), Some(<<SP>>), Some(<<97>>) }

KeySecret == <<115>>   \* "s", the configured secret
KeyWrong == <<119>>    \* "w", another value
\* X-Cron-Key header: absent, the secret, another value
HeaderInputs == { None, Some(KeySecret), Some(KeyWrong) }
\* CRON_KEY: unset, "", the secret
CronKeyValues == { None, Some(<<>>), Some(KeySecret) }

UnknownId == <<120>>   \* "x", an identifier no event has

\* ------------------------------------------------------------------------
\* State
\* ------------------------------------------------------------------------
VARIABLES
  events,        \* storage: identifier -> Event
  people,        \* storage: set of Person (event_id, name)
  event_count,   \* storage: the Stats counter of events created
  lock,          \* holder of the Mutex<ApiState>, or NoHolder
  clock,         \* Utc::now(), in days
  cron_key,      \* environment variable CRON_KEY
  req,           \* the request tasks
  ticks,         \* history: clock advances so far
  writes,        \* history: events ever written by create_event
  deleted,       \* history: identifiers a sweep has deleted
  enc            \* the slug encoder and generate_id on their own

vars == <<events, people, event_count, lock, clock, cron_key, req, ticks,
          writes, deleted, enc>>

IdleReq ==
  [kind |-> "none", pc |-> "idle",
   name_in |-> None, header |-> None, target |-> <<>>,
   now |-> 0, name |-> <<>>, id |-> <<>>,
   status |-> "none", body |-> None,
   \* history of the request
   named |-> FALSE,      \* generate_name() was called for the display name
   gens |-> <<>>,        \* identifiers generate_id returned, in order
   probes |-> 0,         \* get_event probes of the allocation loop
   hits |-> 0,           \* probes that reported an existing event
   taken |-> {},         \* identifiers those probes were about
   lastFree |-> None,    \* identifier of the last probe that reported absent
   written |-> None,     \* the Event passed to a successful create_event
   fresh |-> TRUE,       \* that identifier was absent from storage at the write
   held |-> FALSE,       \* the request acquired the lock
   calls |-> 0,          \* storage adaptor calls made
   deletes |-> 0,        \* delete_events calls made
   cutoff |-> 0,         \* cutoff passed to delete_events
   failed |-> FALSE,     \* an adaptor call of the request returned Err
   spin |-> FALSE]       \* parity of the loop rounds past MaxRetries

\* Storage outlives the process: it starts empty, or holding one event
\* "a-100000" named "a" that an earlier create_event wrote at time 0, with
\* one person.
SeedEvent ==
  [id |-> <<97, HYPHEN>> \o Decimal(SuffixLo), name |-> <<97>>,
   created_at |-> 0, visited_at |-> 0]
SeedPerson == [event_id |-> SeedEvent.id, name |-> <<112>>]

\* the encoder is not exercised on its own
NoEnc == [pc |-> "off", name |-> <<>>, slug |-> <<>>, id |-> <<>>]

Init ==
  /\ \/ /\ events = <<>>
        /\ people = {}
        /\ event_count = 0
        /\ writes = 0
     \/ /\ events = AdaptorCreateEvent(<<>>, SeedEvent)
        /\ people = {SeedPerson}
        /\ event_count = 1
        /\ writes = 1
  /\ lock = NoHolder
  /\ clock = 0
  /\ cron_key \in CronKeyValues
  /\ req = [r \in Reqs |-> IdleReq]
  /\ ticks = 0
  /\ deleted = {}
  /\ enc = NoEnc

Finish(rec, status, body) == [rec EXCEPT !.pc = "done", !.status = status, !.body = body]

\* the handler of task r has its return value
Return(r, rec) == req' = [req EXCEPT ![r] = rec]

\* tasks are spawned in the order of their numbers, one per request
CanStart(r) ==
  /\ req[r].pc = "idle"
  /\ \A q \in Reqs : q < r => req[q].pc # "idle"

\* variant: the guard outlives the handler
DropGuardKeeps(holder, r) == holder

\* the MutexGuard of r, if r has one, is dropped
DropGuard(holder, r) == IF holder = r THEN NoHolder ELSE holder

\* the handler returns: its MutexGuard, if it has one, is dropped and the
\* response goes out
Reply(r) ==
  /\ req[r].pc = "done"
  /\ lock' = DropGuard(lock, r)
  /\ req' = [req EXCEPT ![r] = [IdleReq EXCEPT !.pc = "over"]]
  /\ UNCHANGED <<events, people, event_count, clock, cron_key, ticks>>
  /\ UNCHANGED <<writes, deleted, enc>>

\* ---- the clock ---------------------------------------------------------
\* the clock jumps to the retention boundary or just past it
TickSteps == {RetentionDays, RetentionDays + 1}

Tick(d) ==
  /\ ticks < MaxTicks
  /\ clock' = clock + d
  /\ ticks' = ticks + 1
  /\ UNCHANGED <<events, people, event_count, lock, cron_key, req>>
  /\ UNCHANGED <<writes, deleted, enc>>

\* ---- let adaptor = &state.lock().await.adaptor -------------------------
Acquire(r) ==
  /\ req[r].pc = "lock"
  /\ CanAcquire(lock)
  /\ lock' = r

\* ---- create_event ------------------------------------------------------
StartCreate(r, input) ==
  /\ CanStart(r)
  /\ req' = [req EXCEPT ![r] = [IdleReq EXCEPT !.kind = "create", !.pc = "lock",
                                               !.name_in = input]]
  /\ UNCHANGED <<events, people, event_count, lock, clock, cron_key, ticks>>
  /\ UNCHANGED <<writes, deleted, enc>>

\* lines 64-76: lock, now, name, first generate_id
CreateLock(r) ==
  /\ req[r].kind = "create"
  /\ Acquire(r)
  /\ \E name \in ResolveName(req[r].name_in) :
       \E id \in generate_id(name) :
         req' = [req EXCEPT ![r] = [@ EXCEPT !.pc = "probe", !.held = TRUE,
                                             !.now = clock,
                                             !.name = name,
                                             !.named = ~NameProvided(req[r].name_in),
                                             !.id = id,
                                             !.gens = <<id>>]]
  /\ UNCHANGED <<events, people, event_count, clock, cron_key, ticks>>
  /\ UNCHANGED <<writes, deleted, enc>>

\* variant: a failed probe is swallowed and the loop probes again
ProbeErrorRetries(rec) == [rec EXCEPT !.failed = TRUE]

\* lines 80-83: get_event(..).await.map_err(ApiError::AdaptorError)? returns
\* the error from the handler
ProbeError(rec) == Finish([rec EXCEPT !.failed = TRUE], "AdaptorError", None)

\* lines 79-86: one evaluation of the while condition, and the loop body
CreateProbe(r) ==
  /\ req[r].kind = "create"
  /\ req[r].pc = "probe"
  /\ LET cur == req[r]
         found == AdaptorGetEvent(events, cur.id)
         probed == [cur EXCEPT !.probes = @ + 1, !.calls = @ + 1]
         seen == [probed EXCEPT
                    !.hits = IF found # None THEN @ + 1 ELSE @,
                    !.taken = IF found # None THEN @ \cup {cur.id} ELSE @,
                    !.lastFree = IF found = None THEN Some(cur.id) ELSE @]
     IN \/ /\ Return(r, ProbeError(probed))
           /\ UNCHANGED lock
        \/ /\ LoopContinues(found)
           /\ cur.hits < MaxRetries
           /\ \E id \in generate_id(cur.name) :
                req' = [req EXCEPT ![r] = [seen EXCEPT !.id = id,
                                                        !.gens = Append(@, id)]]
           /\ UNCHANGED lock
        \/ /\ ~LoopContinues(found)
           /\ req' = [req EXCEPT ![r] = [seen EXCEPT !.pc = "write"]]
           /\ UNCHANGED lock
  /\ UNCHANGED <<events, people, event_count, clock, cron_key, ticks>>
  /\ UNCHANGED <<writes, deleted, enc>>

\* lines 79-86 past MaxRetries taken probes: the loop has no bound of its
\* own and goes round again; of these rounds the history keeps the parity
CreateSpin(r) ==
  /\ req[r].kind = "create"
  /\ req[r].pc = "probe"
  /\ req[r].hits = MaxRetries
  /\ LoopContinues(AdaptorGetEvent(events, req[r].id))
  /\ \E id \in generate_id(req[r].name) :
       req' = [req EXCEPT ![r] = [@ EXCEPT !.id = id, !.spin = ~@]]
  /\ UNCHANGED lock
  /\ UNCHANGED <<events, people, event_count, clock, cron_key, ticks>>
  /\ UNCHANGED <<writes, deleted, enc>>

\* variant: a failed create_event is swallowed and the handler goes on to
\* the statistics call
WriteErrorGoesOn(rec) == [rec EXCEPT !.failed = TRUE, !.pc = "stat"]

\* lines 96-98: create_event(..).await.map_err(ApiError::AdaptorError)?
\* returns the error from the handler
WriteError(rec) == Finish([rec EXCEPT !.failed = TRUE], "AdaptorError", None)

\* lines 88-98: adaptor.create_event(Event { id, name, created_at, visited_at })
CreateWrite(r) ==
  /\ req[r].kind = "create"
  /\ req[r].pc = "write"
  /\ LET cur == [req[r] EXCEPT !.calls = @ + 1]
         e == [id |-> cur.id, name |-> cur.name,
               created_at |-> cur.now, visited_at |-> cur.now]
     IN \/ /\ Return(r, WriteError(cur))
           /\ UNCHANGED lock
           /\ UNCHANGED <<events, writes>>
        \/ /\ events' = AdaptorCreateEvent(events, e)
           /\ writes' = writes + 1
           /\ req' = [req EXCEPT ![r] = [cur EXCEPT !.pc = "stat",
                                                    !.written = Some(e),
                                                    !.fresh = (e.id \notin DOMAIN events)]]
           /\ UNCHANGED lock
  /\ UNCHANGED <<people, event_count, clock, cron_key, ticks>>
  /\ UNCHANGED <<deleted, enc>>

\* lines 100-106: increment_stat_event_count, then 201 with the event
CreateStat(r) ==
  /\ req[r].kind = "create"
  /\ req[r].pc = "stat"
  /\ LET cur == [req[r] EXCEPT !.calls = @ + 1]
     IN \/ /\ Return(r, Finish([cur EXCEPT !.failed = TRUE], "AdaptorError", None))
           /\ UNCHANGED event_count
        \/ /\ event_count' = event_count + 1
           /\ Return(r, Finish(cur, "Created", Some(EventResponse(cur.written[1]))))
  /\ UNCHANGED lock
  /\ UNCHANGED <<events, people, clock, cron_key, ticks>>
  /\ UNCHANGED <<writes, deleted, enc>>

\* ---- get_event ---------------------------------------------------------
StartGet(r, id) ==
  /\ CanStart(r)
  /\ req' = [req EXCEPT ![r] = [IdleReq EXCEPT !.kind = "get", !.pc = "lock",
                                               !.target = id]]
  /\ UNCHANGED <<events, people, event_count, lock, clock, cron_key, ticks>>
  /\ UNCHANGED <<writes, deleted, enc>>

GetLock(r) ==
  /\ req[r].kind = "get"
  /\ Acquire(r)
  /\ req' = [req EXCEPT ![r] = [@ EXCEPT !.pc = "fetch", !.held = TRUE]]
  /\ UNCHANGED <<events, people, event_count, clock, cron_key, ticks>>
  /\ UNCHANGED <<writes, deleted, enc>>

\* variant: an absent event is reported as an adaptor failure
GetEventResultAbsentFails(rec, event) ==
  IF event # None THEN Finish(rec, "Ok", Some(EventResponse(event[1])))
  ELSE Finish(rec, "AdaptorError", None)

\* match event { Some(event) => Ok(Json(event.into())), None => Err(NotFound) }
GetEventResult(rec, event) ==
  IF event # None THEN Finish(rec, "Ok", Some(EventResponse(event[1])))
  ELSE Finish(rec, "NotFound", None)

\* variant: the handler stamps the event it read as visited now
GetEventTouches(ev, id, now) ==
  IF id \in DOMAIN ev THEN [ev EXCEPT ![id].visited_at = now] ELSE ev

\* lines 36-44: storage after the handler's adaptor calls; get_event is the
\* only one, and the Event it returns goes into the response
GetEventStorage(ev, id, now) == ev

\* lines 36-44
GetFetch(r) ==
  /\ req[r].kind = "get"
  /\ req[r].pc = "fetch"
  /\ LET cur == [req[r] EXCEPT !.calls = @ + 1]
     IN \/ /\ Return(r, Finish([cur EXCEPT !.failed = TRUE], "AdaptorError", None))
           /\ UNCHANGED events
        \/ /\ Return(r, GetEventResult(cur, AdaptorGetEvent(events, cur.target)))
           /\ events' = GetEventStorage(events, cur.target, clock)
  /\ UNCHANGED lock
  /\ UNCHANGED <<people, event_count, clock, cron_key, ticks>>
  /\ UNCHANGED <<writes, deleted, enc>>

\* ---- cleanup -----------------------------------------------------------
\* lines 26-36: the handler starts, checks the cron key
StartCleanup(r, header) ==
  /\ CanStart(r)
  /\ LET rec == [IdleReq EXCEPT !.kind = "cleanup", !.header = header]
     IN IF CronKeyRejects(header, cron_key)
        THEN Return(r, Finish(rec, "NotAuthorized", None))
        ELSE req' = [req EXCEPT ![r] = [rec EXCEPT !.pc = "lock"]]
  /\ UNCHANGED <<events, people, event_count, lock, clock, cron_key, ticks>>
  /\ UNCHANGED <<writes, deleted, enc>>

CleanupLock(r) ==
  /\ req[r].kind = "cleanup"
  /\ Acquire(r)
  /\ req' = [req EXCEPT ![r] = [@ EXCEPT !.pc = "delete", !.held = TRUE]]
  /\ UNCHANGED <<events, people, event_count, clock, cron_key, ticks>>
  /\ UNCHANGED <<writes, deleted, enc>>

\* lines 40-50
CleanupDelete(r) ==
  /\ req[r].kind = "cleanup"
  /\ req[r].pc = "delete"
  /\ LET cur == [req[r] EXCEPT !.calls = @ + 1, !.deletes = @ + 1,
                               !.cutoff = Cutoff(clock)]
         res == AdaptorDeleteEvents(events, people, Cutoff(clock))
     IN \/ /\ Return(r, Finish([cur EXCEPT !.failed = TRUE], "AdaptorError", None))
           /\ UNCHANGED <<events, people, deleted>>
        \/ /\ events' = res.events
           /\ deleted' = deleted \cup (DOMAIN events \ DOMAIN res.events)
           /\ people' = res.people
           /\ Return(r, Finish(cur, "Ok", Some([event_count |-> res.event_count, person_count |-> res.person_count])))
  /\ UNCHANGED lock
  /\ UNCHANGED <<event_count, clock, cron_key, ticks>>
  /\ UNCHANGED <<writes, enc>>

\* identifiers a client can ask about
KnownIds == DOMAIN events \cup {UnknownId}

Next ==
  \/ \E d \in TickSteps : Tick(d)
  \/ \E r \in Reqs : \E input \in NameInputs : StartCreate(r, input)
  \/ \E r \in Reqs : CreateLock(r)
  \/ \E r \in Reqs : CreateProbe(r)
  \/ \E r \in Reqs : CreateWrite(r)
  \/ \E r \in Reqs : CreateStat(r)
  \/ \E r \in Reqs : \E id \in KnownIds : StartGet(r, id)
  \/ \E r \in Reqs : GetLock(r)
  \/ \E r \in Reqs : GetFetch(r)
  \/ \E r \in Reqs : \E header \in HeaderInputs : StartCleanup(r, header)
  \/ \E r \in Reqs : CleanupLock(r)
  \/ \E r \in Reqs : CleanupDelete(r)
  \/ \E r \in Reqs : Reply(r)

Spec == Init /\ [][Next]_vars


\* ------------------------------------------------------------------------
\* Specifications with narrower clients.  The handlers are those of Spec;
\* only the requests the clients send, and the environment, are narrowed.
\* ------------------------------------------------------------------------
NameA == Some(<<97>>)

\* the cron key gate: cleanup under every CRON_KEY and header
NextAuth ==
  \/ \E d \in TickSteps : Tick(d)
  \/ \E r \in Reqs : \E header \in HeaderInputs : StartCleanup(r, header)
  \/ \E r \in Reqs : CleanupLock(r)
  \/ \E r \in Reqs : CleanupDelete(r)
  \/ \E r \in Reqs : Reply(r)

SpecAuth == Init /\ [][NextAuth]_vars

\* no CRON_KEY configured
InitCreate == Init /\ cron_key = None

\* sweeps that pass the gate, among events named "a" created at different
\* times
NextSweep ==
  \/ \E d \in TickSteps : Tick(d)
  \/ \E r \in Reqs : StartCreate(r, NameA)
  \/ \E r \in Reqs : CreateLock(r)
  \/ \E r \in Reqs : CreateProbe(r)
  \/ \E r \in Reqs : CreateWrite(r)
  \/ \E r \in Reqs : CreateStat(r)
  \/ \E r \in Reqs : StartCleanup(r, None)
  \/ \E r \in Reqs : CleanupLock(r)
  \/ \E r \in Reqs : CleanupDelete(r)
  \/ \E r \in Reqs : Reply(r)

SpecSweep == InitCreate /\ [][NextSweep]_vars

\* concurrent create_event requests with every kind of name
NextCreate ==
  \/ \E r \in Reqs : \E input \in NameInputs : StartCreate(r, input)
  \/ \E r \in Reqs : CreateLock(r)
  \/ \E r \in Reqs : CreateProbe(r)
  \/ \E r \in Reqs : CreateWrite(r)
  \/ \E r \in Reqs : CreateStat(r)
  \/ \E r \in Reqs : Reply(r)

SpecCreate == InitCreate /\ [][NextCreate]_vars

\* get_event next to the requests that change storage
NextGet ==
  \/ \E d \in TickSteps : Tick(d)
  \/ \E r \in Reqs : StartCreate(r, NameA)
  \/ \E r \in Reqs : CreateLock(r)
  \/ \E r \in Reqs : CreateProbe(r)
  \/ \E r \in Reqs : CreateWrite(r)
  \/ \E r \in Reqs : CreateStat(r)
  \/ \E r \in Reqs : \E id \in KnownIds : StartGet(r, id)
  \/ \E r \in Reqs : GetLock(r)
  \/ \E r \in Reqs : GetFetch(r)
  \/ \E r \in Reqs : StartCleanup(r, None)
  \/ \E r \in Reqs : CleanupLock(r)
  \/ \E r \in Reqs : CleanupDelete(r)
  \/ \E r \in Reqs : Reply(r)

SpecGet == InitCreate /\ [][NextGet]_vars

\* concurrent create_event requests whose names are absent or only
\* punctuation, so that generate_id takes its slug from a generated name
NamePunct == Some(<<33>>)   \* "!"

FallbackInputs == { None, NamePunct }

NextFallback ==
  \/ \E r \in Reqs : \E input \in FallbackInputs : StartCreate(r, input)
  \/ \E r \in Reqs : CreateLock(r)
  \/ \E r \in Reqs : CreateProbe(r)
  \/ \E r \in Reqs : CreateWrite(r)
  \/ \E r \in Reqs : CreateStat(r)
  \/ \E r \in Reqs : Reply(r)

SpecFallback == InitCreate /\ [][NextFallback]_vars

\* the three handlers side by side, under every CRON_KEY and header, with
\* the clock standing still
NextHandle ==
  \/ \E r \in Reqs : StartCreate(r, NameA)
  \/ \E r \in Reqs : CreateLock(r)
  \/ \E r \in Reqs : CreateProbe(r)
  \/ \E r \in Reqs : CreateWrite(r)
  \/ \E r \in Reqs : CreateStat(r)
  \/ \E r \in Reqs : StartGet(r, UnknownId)
  \/ \E r \in Reqs : GetLock(r)
  \/ \E r \in Reqs : GetFetch(r)
  \/ \E r \in Reqs : \E header \in HeaderInputs : StartCleanup(r, header)
  \/ \E r \in Reqs : CleanupLock(r)
  \/ \E r \in Reqs : CleanupDelete(r)
  \/ \E r \in Reqs : Reply(r)

SpecHandle == Init /\ [][NextHandle]_vars

\* ---- scheduling --------------------------------------------------------
\* storage in which every suffix of the slug "a" is taken
FullEvents ==
  [id \in generate_id(<<97>>) |->
     [id |-> id, name |-> <<97>>, created_at |-> 0, visited_at |-> 0]]

\* the handlers under the tokio runtime, with a CRON_KEY configured and the
\* clock standing still; storage holds the event "a-100000", or an event
\* for every suffix of "a"; the allocation loop may go round for ever
InitLive ==
  /\ \/ events = AdaptorCreateEvent(<<>>, SeedEvent)
     \/ events = FullEvents
  /\ people = {SeedPerson}
  /\ event_count = Cardinality(DOMAIN events)
  /\ writes = event_count
  /\ lock = NoHolder
  /\ clock = 0
  /\ cron_key = Some(KeySecret)
  /\ req = [r \in Reqs |-> IdleReq]
  /\ ticks = 0
  /\ deleted = {}
  /\ enc = NoEnc

LiveHeaders == { Some(KeySecret), Some(KeyWrong) }

NextLive ==
  \/ \E r \in Reqs : StartCreate(r, NameA)
  \/ \E r \in Reqs : CreateLock(r)
  \/ \E r \in Reqs : CreateProbe(r)
  \/ \E r \in Reqs : CreateSpin(r)
  \/ \E r \in Reqs : CreateWrite(r)
  \/ \E r \in Reqs : CreateStat(r)
  \/ \E r \in Reqs : StartGet(r, UnknownId)
  \/ \E r \in Reqs : GetLock(r)
  \/ \E r \in Reqs : GetFetch(r)
  \/ \E r \in Reqs : \E header \in LiveHeaders : StartCleanup(r, header)
  \/ \E r \in Reqs : CleanupLock(r)
  \/ \E r \in Reqs : CleanupDelete(r)
  \/ \E r \in Reqs : Reply(r)

\* a step of the task of r once its request has arrived
Run(r) ==
  \/ CreateLock(r) \/ CreateProbe(r) \/ CreateSpin(r) \/ CreateWrite(r) \/ CreateStat(r)
  \/ GetLock(r) \/ GetFetch(r)
  \/ CleanupLock(r) \/ CleanupDelete(r)
  \/ Reply(r)

\* line 85 with thread_rng() at line 128 drawing a suffix no event has
DrawFree(r) ==
  /\ CreateProbe(r) \/ CreateSpin(r)
  /\ req'[r].pc = "probe"
  /\ req'[r].id \notin DOMAIN events

\* the runtime polls every task that can run, the Mutex hands the lock to a
\* waiter once it is free, and the random draws do not avoid the free
\* suffixes for ever
FairLive == \A r \in Reqs : WF_vars(Run(r)) /\ WF_vars(DrawFree(r))

SpecLive == InitLive /\ [][NextLive]_vars /\ FairLive

\* ---- encode_name and generate_id as functions of the name ---------------
\* characters of the names: a A 1 space ! - e-acute
EncodeAlphabet == {97, 65, 49, SP, 33, HYPHEN, 233}

\* every name of at most MaxLen of these characters
EncodeInputs == UNION {[1..n -> EncodeAlphabet] : n \in 0..MaxLen}

InitEncode ==
  /\ events = <<>>
  /\ people = {}
  /\ event_count = 0
  /\ writes = 0
  /\ lock = NoHolder
  /\ clock = 0
  /\ cron_key = None
  /\ req = [r \in Reqs |-> IdleReq]
  /\ ticks = 0
  /\ deleted = {}
  /\ \E name \in EncodeInputs : enc = [NoEnc EXCEPT !.pc = "name", !.name = name]

\* encode_name(name)
EncodeName ==
  /\ enc.pc = "name"
  /\ enc' = [enc EXCEPT !.pc = "slug", !.slug = encode_name(enc.name)]
  /\ UNCHANGED <<events, people, event_count, lock, clock, cron_key, req, ticks,
                 writes, deleted>>

\* generate_id(name)
GenerateId ==
  /\ enc.pc = "slug"
  /\ \E id \in generate_id(enc.name) : enc' = [enc EXCEPT !.pc = "id", !.id = id]
  /\ UNCHANGED <<events, people, event_count, lock, clock, cron_key, req, ticks,
                 writes, deleted>>

NextEncode ==
  \/ EncodeName
  \/ GenerateId

SpecEncode == InitEncode /\ [][NextEncode]_vars


\* ------------------------------------------------------------------------
\* Properties of cleanup (checked under SpecAuth and SpecSweep)
\* ------------------------------------------------------------------------
IsCleanup(r) == req[r].kind = "cleanup"
IsCreate(r) == req[r].kind = "create"
IsGet(r) == req[r].kind = "get"

KeyConfigured == cron_key # None /\ cron_key[1] # <<>>
HeaderMissing(r) == req[r].header = None
HeaderMismatch(r) == req[r].header # None /\ req[r].header[1] # cron_key[1]

\* an event the sweep would remove now
SweepableEvent == \E i \in DOMAIN events : events[i].visited_at < clock - RetentionDays

\* C1: with a non-empty CRON_KEY, a cleanup request whose X-Cron-Key header
\* is missing or different is rejected with not-authorized and never calls
\* delete_events.
C1_MissingOrWrongKeyRejected ==
  \A r \in Reqs :
    (IsCleanup(r) /\ KeyConfigured /\ (HeaderMissing(r) \/ HeaderMismatch(r)))
      => (req[r].status = "NotAuthorized" /\ req[r].deletes = 0)

\* C2: with a non-empty CRON_KEY, a cleanup request that presents a different
\* X-Cron-Key is answered not-authorized; it never acquires the shared handle,
\* makes no adaptor call, and none of its steps changes events, people or the
\* lock.
C2_WrongKeyNoDeletion ==
  /\ [](\A r \in Reqs :
          (IsCleanup(r) /\ KeyConfigured /\ HeaderMismatch(r))
            => /\ req[r].pc = "done"
               /\ req[r].status = "NotAuthorized"
               /\ ~req[r].held
               /\ req[r].calls = 0
               /\ req[r].deletes = 0
               /\ lock # r)
  /\ [][\A r \in Reqs :
          ( /\ req'[r] # req[r]
            /\ KeyConfigured
            /\ \/ IsCleanup(r) /\ HeaderMismatch(r)
               \/ req'[r].kind = "cleanup" /\ req'[r].header # None
                    /\ req'[r].header[1] # cron_key[1] )
            => (events' = events /\ people' = people /\ lock' = lock)]_vars

C2_Witness ==
  \E r \in Reqs :
    /\ IsCleanup(r) /\ KeyConfigured /\ HeaderMismatch(r)
    /\ req[r].status = "NotAuthorized"
    /\ SweepableEvent

\* C3: with CRON_KEY unset or empty, no cleanup request is rejected, whatever
\* its header, and each one that returns has called delete_events once.
C3_NoKeyAlwaysSweeps ==
  (cron_key = None \/ cron_key = Some(<<>>)) =>
    \A r \in Reqs :
      IsCleanup(r) =>
        /\ req[r].status # "NotAuthorized"
        /\ req[r].pc \in {"lock", "delete", "done"}
        /\ req[r].pc = "done" => (req[r].deletes = 1 /\ req[r].held)

C3_Witness ==
  \E r \in Reqs :
    /\ IsCleanup(r)
    /\ cron_key = Some(<<>>)
    /\ req[r].header = Some(KeyWrong)
    /\ req[r].pc = "done"
    /\ req[r].deletes = 1
    /\ req[r].status = "Ok"

\* C9: a successful sweep calls delete_events once with cutoff now - 90 days;
\* it leaves exactly the events whose visited_at is not older than the cutoff,
\* unchanged, leaves no person of a deleted event, and reports the number of
\* events removed and of their people.
C9_SweepDeletesExactlyOld ==
  [][\A r \in Reqs :
       ( /\ IsCleanup(r)
         /\ req[r].pc = "delete"
         /\ req'[r].pc = "done"
         /\ req'[r].status = "Ok" )
         => LET cutoff == clock - 90
                kept == { i \in DOMAIN events : ~(events[i].visited_at < cutoff) }
                gone == DOMAIN events \ kept
            IN /\ req'[r].deletes = 1
               /\ req'[r].cutoff = cutoff
               /\ DOMAIN events' = kept
               /\ \A i \in kept : events'[i] = events[i]
               /\ people' = { p \in people : p.event_id \in kept }
               /\ req'[r].body[1].event_count = Cardinality(gone)
               /\ req'[r].body[1].person_count
                    = Cardinality({ p \in people : p.event_id \in gone })]_vars

C9_Witness ==
  \E r \in Reqs :
    /\ IsCleanup(r)
    /\ req[r].status = "Ok"
    /\ req[r].body = Some([event_count |-> 1, person_count |-> 1])
    /\ DOMAIN events # {}
    /\ SeedEvent.id \notin DOMAIN events
    /\ people = {}


\* ------------------------------------------------------------------------
\* Properties of create_event (checked under SpecCreate)
\* ------------------------------------------------------------------------
\* the allocation loop of r has ended with an identifier to write
Allocated(r) == IsCreate(r) /\ (req[r].pc \in {"write", "stat"} \/ req[r].written # None)

\* C4: concurrent create-event requests never succeed with the same
\* identifier: every create_event write is of an identifier absent from
\* storage at that moment, no two requests in flight have written the same
\* identifier, and while one request sits between its free probe and its
\* write no other request makes an adaptor call or changes storage.
C4_NoDuplicateIdentifier ==
  /\ [](\A r \in Reqs : (IsCreate(r) /\ req[r].written # None) => req[r].fresh)
  /\ [](\A r, q \in Reqs :
          ( /\ r # q
            /\ IsCreate(r) /\ req[r].written # None
            /\ IsCreate(q) /\ req[q].written # None )
            => req[r].written[1].id # req[q].written[1].id)
  /\ [][\A r \in Reqs :
          (IsCreate(r) /\ req[r].pc = "write")
            => /\ \A q \in Reqs \ {r} : req'[q].calls = req[q].calls
               /\ people' = people
               /\ event_count' = event_count
               /\ events' # events
                    => ( /\ req'[r].written # None
                         /\ req[r].id \notin DOMAIN events
                         /\ events' = AdaptorCreateEvent(events, req'[r].written[1]) )]_vars

C4_Witness ==
  \E r, q \in Reqs :
    /\ r # q
    /\ IsCreate(r) /\ req[r].written # None /\ req[r].fresh
    /\ IsCreate(q) /\ req[q].pc = "lock"
    /\ req[q].name_in = req[r].name_in
    /\ req[r].written[1].id \in DOMAIN events

\* C5: the identifier create_event is called with was never reported as
\* existing by a probe of the same allocation attempt; it is the identifier
\* of the most recent probe, which reported absent.
C5_WrittenIdNotSeenTaken ==
  \A r \in Reqs :
    Allocated(r) =>
      /\ req[r].id \notin req[r].taken
      /\ req[r].lastFree = Some(req[r].id)
      /\ req[r].written # None => req[r].written[1].id = req[r].id

C5_Witness ==
  \E r \in Reqs :
    /\ IsCreate(r) /\ req[r].written # None
    /\ req[r].taken # {}
    /\ req[r].written[1].id \notin req[r].taken

\* C6: when the first k probes report taken and probe k+1 reports free, the
\* allocator has made exactly k+1 probes and k+1 generate_id calls, and
\* create_event is called once, with the (k+1)-th generated identifier.
C6_ProbesAndGenerations ==
  \A r \in Reqs :
    Allocated(r) =>
      LET k == req[r].hits
      IN /\ req[r].probes = k + 1
         /\ Len(req[r].gens) = k + 1
         /\ req[r].id = req[r].gens[k + 1]
         /\ req[r].written # None => req[r].written[1].id = req[r].gens[k + 1]
         /\ req[r].pc = "write" => req[r].calls = req[r].probes
         /\ req[r].pc = "stat" => req[r].calls = req[r].probes + 1

C6_Witness ==
  \E r \in Reqs :
    /\ IsCreate(r) /\ req[r].written # None
    /\ req[r].hits = 2
    /\ req[r].probes = 3
    /\ req[r].written[1].id = req[r].gens[3]

\* the request's name is missing or empty after trimming
NameBlank(r) == req[r].name_in = None \/ Trim(req[r].name_in[1]) = <<>>

\* the request has resolved its display name
NameResolved(r) == IsCreate(r) /\ req[r].pc \notin {"idle", "lock"}

JellyWord == <<74, 101, 108, 108, 121>>   \* "Jelly"

\* '<Adjective> <Noun> Jelly'
ThreeWordForm(name) ==
  \E a \in Adjectives : \E j \in Jellies : name = a \o <<SP>> \o j \o <<SP>> \o JellyWord

\* C7: when the name is absent or empty after trimming (whitespace-only
\* included) the Name Generator is called and the persisted display name is
\* the generated name, never the empty string.
C7_BlankNameGenerated ==
  \A r \in Reqs :
    (NameResolved(r) /\ NameBlank(r)) =>
      /\ req[r].named
      /\ ThreeWordForm(req[r].name)
      /\ req[r].written # None => req[r].written[1].name # <<>>

\* '<slug>-<six decimal digits>' with the slug of the given name
IdOfName(id, name) ==
  LET n == Len(id)
  IN /\ n >= 8
     /\ SubSeq(id, 1, n - 7) = encode_name(name)
     /\ id[n - 6] = HYPHEN
     /\ \A i \in (n - 5)..n : IsAsciiDigit(id[i])

\* C8: create-event with name "" or no name persists an event whose name is
\* '<Adjective> <Noun> Jelly' and whose identifier is the slug of that name,
\* '-', and six decimal digits.
C8_EmptyNameEvent ==
  \A r \in Reqs :
    (IsCreate(r) /\ req[r].written # None /\ req[r].name_in \in {None, Some(<<>>)}) =>
      LET e == req[r].written[1]
      IN /\ ThreeWordForm(e.name)
         /\ IdOfName(e.id, e.name)
         /\ e.id \in DOMAIN events => events[e.id] = e

C8_Witness ==
  \E r \in Reqs :
    /\ IsCreate(r) /\ req[r].name_in = Some(<<>>)
    /\ req[r].status = "Created"
    /\ ThreeWordForm(req[r].written[1].name)
    /\ req[r].written[1].id \in DOMAIN events

\* ------------------------------------------------------------------------
\* Properties of get_event (checked under SpecGet)
\* ------------------------------------------------------------------------
\* C10: get-event answers not-found exactly when the adaptor's get_event
\* succeeded and returned absent, adaptor-failure exactly when the adaptor
\* call failed, and the event's public representation when it is present.
C10_GetEventOutcome ==
  \A r \in Reqs :
    (IsGet(r) /\ req[r].pc = "done") =>
      LET present == req[r].target \in DOMAIN events
      IN /\ req[r].status \in {"Ok", "NotFound", "AdaptorError"}
         /\ req[r].status = "AdaptorError" <=> req[r].failed
         /\ req[r].status = "NotFound" <=> (~req[r].failed /\ ~present)
         /\ req[r].status = "Ok" <=> (~req[r].failed /\ present)
         /\ req[r].status = "Ok" =>
              req[r].body = Some([id |-> req[r].target,
                                  name |-> events[req[r].target].name])
         /\ req[r].status # "Ok" => req[r].body = None

C10_Witness ==
  \E r \in Reqs :
    /\ IsGet(r) /\ req[r].pc = "done"
    /\ req[r].target = UnknownId
    /\ req[r].status = "NotFound"
    /\ DOMAIN events # {}

\* ------------------------------------------------------------------------
\* Failures of the adaptor inside create_event (checked under SpecSweep)
\* ------------------------------------------------------------------------
\* the request's probe of the allocation loop returned Err
ProbeFailed(r) == IsCreate(r) /\ req[r].failed /\ req[r].calls = req[r].probes

\* C11: when a get_event probe of the allocation loop fails, the request ends
\* at once with the adaptor failure: no further probe is made, create_event
\* and increment_stat_event_count are not called, the failing step leaves
\* storage unchanged, and the return releases the shared handle.
C11_ProbeFailureEndsRequest ==
  /\ [](\A r \in Reqs :
          ProbeFailed(r) =>
            /\ req[r].pc = "done"
            /\ req[r].status = "AdaptorError"
            /\ req[r].body = None
            /\ req[r].written = None
            /\ req[r].probes = req[r].hits + 1
            /\ lock = r)
  /\ [][\A r \in Reqs :
          /\ (IsCreate(r) /\ req[r].pc = "probe" /\ req'[r].failed)
               => ( /\ ProbeFailed(r)'
                    /\ events' = events /\ people' = people
                    /\ event_count' = event_count /\ writes' = writes )
          /\ (ProbeFailed(r) /\ req'[r] # req[r])
               => ( /\ req'[r].pc = "over"
                    /\ lock' = NoHolder
                    /\ events' = events /\ people' = people
                    /\ event_count' = event_count /\ writes' = writes )]_vars

C11_Witness ==
  \E r \in Reqs :
    /\ ProbeFailed(r)
    /\ req[r].hits >= 1
    /\ req[r].status = "AdaptorError"
    /\ lock = r

\* the request's increment_stat_event_count returned Err
StatFailed(r) == IsCreate(r) /\ req[r].failed /\ req[r].written # None

\* C12: increment_stat_event_count is called only after create_event
\* succeeded in the same request and at most once per request; the event
\* counter never exceeds the number of events ever written; when the
\* increment fails the request reports the adaptor failure while the event
\* it wrote is in storage.
C12_CountAfterWrite ==
  /\ [](/\ event_count <= writes
        /\ \A r \in Reqs :
             IsCreate(r) =>
               /\ req[r].pc = "stat" => (req[r].written # None /\ ~req[r].failed)
               /\ req[r].calls <= req[r].probes + 2
               /\ req[r].status = "Created"
                    => (req[r].written # None /\ req[r].calls = req[r].probes + 2)
               /\ StatFailed(r)
                    => LET e == req[r].written[1]
                       IN /\ req[r].status = "AdaptorError"
                          /\ req[r].calls = req[r].probes + 2
                          /\ e.id \in DOMAIN events
                          /\ events[e.id] = e)
  /\ [][event_count' # event_count =>
          /\ event_count' = event_count + 1
          /\ \E r \in Reqs :
               /\ IsCreate(r) /\ req[r].pc = "stat" /\ req[r].written # None
               /\ req'[r].status = "Created"
               /\ \A q \in Reqs \ {r} : req'[q] = req[q]]_vars

C12_Witness ==
  \E r \in Reqs :
    /\ StatFailed(r)
    /\ req[r].status = "AdaptorError"
    /\ req[r].written[1].id \in DOMAIN events
    /\ event_count < writes

\* ------------------------------------------------------------------------
\* Properties of encode_name and generate_id (checked under SpecEncode)
\* ------------------------------------------------------------------------
IsSlugAlphabet(c) == c \in 97..122 \/ IsAsciiDigit(c) \/ c = HYPHEN

NoEdgeHyphen(s) == s # <<>> => (s[1] # HYPHEN /\ s[Len(s)] # HYPHEN)

NoHyphenPair(s) == \A i \in 1..(Len(s) - 1) : ~(s[i] = HYPHEN /\ s[i + 1] = HYPHEN)

Encoded == enc.pc \in {"slug", "id"}

\* C13: for every input the Slug Encoder's output contains only lowercase
\* ASCII letters, digits and hyphens, neither begins nor ends with a hyphen,
\* and has no two adjacent hyphens.
C13_SlugWellFormed ==
  Encoded =>
    /\ \A i \in 1..Len(enc.slug) : IsSlugAlphabet(enc.slug[i])
    /\ NoEdgeHyphen(enc.slug)
    /\ NoHyphenPair(enc.slug)

\* the number a string of decimal digits writes
RECURSIVE DecimalValue(_)
DecimalValue(d) ==
  IF d = <<>> THEN 0
  ELSE 10 * DecimalValue(SubSeq(d, 1, Len(d) - 1)) + (d[Len(d)] - 48)

\* C14: every identifier generate_id returns, for every name, names whose
\* slug is empty or only hyphens included, is '<slug>-<number>' where the
\* slug has at least one character that is not a hyphen and the number is
\* six decimal digits from 100000 to 999999.
C14_IdentifierForm ==
  enc.pc = "id" =>
    LET n == Len(enc.id)
        slug == SubSeq(enc.id, 1, n - 7)
    IN /\ n >= 8
       /\ SelectSeq(slug, NotHyphen) # <<>>
       /\ enc.id[n - 6] = HYPHEN
       /\ \A i \in (n - 5)..n : IsAsciiDigit(enc.id[i])
       /\ DecimalValue(SubSeq(enc.id, n - 5, n)) \in SuffixLo..SuffixHi

C14_Witness ==
  /\ enc.pc = "id"
  /\ enc.name = <<33, SP, HYPHEN>>
  /\ IsDegenerate(enc.slug)
  /\ SubSeq(enc.id, Len(enc.id) - 5, Len(enc.id)) = Decimal(SuffixHi)

\* ------------------------------------------------------------------------
\* The slug across retries and against the stored name (checked under
\* SpecFallback)
\* ------------------------------------------------------------------------
\* the identifier without its '-' and six digits
SlugOf(id) == SubSeq(id, 1, Len(id) - 7)

\* C15: across the retries of one allocation attempt the slug of the
\* candidate identifier stays the same and only the numeric suffix is
\* redrawn, also when the supplied name has a degenerate slug and a
\* generated name stands in for it.
C15_SlugStableAcrossRetries ==
  \A r \in Reqs :
    IsCreate(r) =>
      \A i, j \in 1..Len(req[r].gens) : SlugOf(req[r].gens[i]) = SlugOf(req[r].gens[j])

\* C18: the slug of every created event's identifier is the Slug Encoder's
\* output for the event's stored display name; for a supplied name with a
\* degenerate slug, the generated name the slug was made from is the name
\* persisted.
C18_SlugOfStoredName ==
  \A r \in Reqs :
    (IsCreate(r) /\ req[r].written # None) =>
      SlugOf(req[r].written[1].id) = encode_name(req[r].written[1].name)

\* ------------------------------------------------------------------------
\* The shared handle (checked under SpecHandle)
\* ------------------------------------------------------------------------
\* the handler of r is past its state.lock().await and has not returned
PastLock(r) == req[r].pc \in {"probe", "write", "stat", "fetch", "delete"}

\* the handler of r has run part of its body and has not returned
BodyBegun(r) ==
  \/ PastLock(r)
  \/ req[r].pc = "done"
  \/ IsCleanup(r) /\ req[r].pc = "lock"

\* C16 as stated: at most one handler holds the handle, adaptor calls are
\* made by its holder, and the whole body of every handler, cleanup's
\* authorization check included, runs while the handler holds the handle.
C16_WholeBodyUnderHandle ==
  /\ \A r, q \in Reqs : (PastLock(r) /\ PastLock(q)) => r = q
  /\ \A r \in Reqs : req[r].calls > 0 => req[r].held
  /\ \A r \in Reqs : BodyBegun(r) => lock = r

\* C16 amended: at most one handler holds the handle, every adaptor call is
\* made by its holder, and the body of create_event and get_event runs
\* wholly while holding it; cleanup checks the cron key before it acquires
\* the handle, so a rejected cleanup never holds it, and the rest of its
\* body runs while holding it.
C16_BodyUnderHandleButGate ==
  /\ [](/\ \A r, q \in Reqs : (PastLock(r) /\ PastLock(q)) => r = q
        /\ \A r \in Reqs :
             /\ req[r].calls > 0 => req[r].held
             /\ PastLock(r) => (lock = r /\ req[r].held)
             /\ req[r].pc = "lock" => (lock # r /\ ~req[r].held)
             /\ req[r].pc = "done" =>
                  /\ req[r].held <=> lock = r
                  /\ req[r].held <=> req[r].status # "NotAuthorized"
                  /\ req[r].status = "NotAuthorized" => IsCleanup(r)
             /\ lock = r => req[r].held)
  /\ [][\A r \in Reqs :
          /\ req'[r].calls > req[r].calls => (lock = r /\ lock' = r)
          /\ (lock = r /\ lock' # r) => (lock' = NoHolder /\ req[r].pc = "done")
          /\ (lock # r /\ lock' = r) => (lock = NoHolder /\ req[r].pc = "lock")]_vars

C16_Witness ==
  \E r, q \in Reqs :
    /\ IsCleanup(r) /\ req[r].status = "NotAuthorized" /\ ~req[r].held
    /\ PastLock(q) /\ lock = q /\ req[q].calls > 0

\* ------------------------------------------------------------------------
\* Visibility of an identifier (checked under SpecSweep)
\* ------------------------------------------------------------------------
\* this step makes id active: a create_event request writes it after its
\* probe found it absent
ActivatedByCreate(id) ==
  \E r \in Reqs :
    /\ IsCreate(r) /\ req[r].pc = "write"
    /\ req[r].id = id /\ req[r].lastFree = Some(id)
    /\ req'[r].written = Some(events'[id])

\* this step deletes id: the sweep of a cleanup request removes it as older
\* than the retention period
DeletedBySweep(id) ==
  \E r \in Reqs :
    /\ IsCleanup(r) /\ req[r].pc = "delete"
    /\ req'[r].status = "Ok"
    /\ events[id].visited_at < clock - RetentionDays
    /\ id \in deleted'

\* every change of visibility in this step is a creation by create_event or
\* a deletion by the sweep, and no active event is replaced
VisibilitySteps ==
  \A id \in DOMAIN events \cup DOMAIN events' :
    /\ (id \notin DOMAIN events /\ id \in DOMAIN events') => ActivatedByCreate(id)
    /\ (id \in DOMAIN events /\ id \notin DOMAIN events') => DeletedBySweep(id)
    /\ (id \in DOMAIN events /\ id \in DOMAIN events') => events'[id] = events[id]

\* C17 as stated: an identifier becomes active only through create-event,
\* deleted only through the sweep, and once deleted it is never active again.
C17_DeletedNeverActiveAgain ==
  /\ [](\A id \in deleted : id \notin DOMAIN events)
  /\ [][VisibilitySteps]_vars

\* C17 amended: an identifier becomes active only through create-event and
\* deleted only through the sweep; a deleted identifier is free again, and it
\* becomes active again only through a later create-event whose probe found
\* it absent.
C17_VisibilityMoves == [][VisibilitySteps]_vars

C17_Witness ==
  \E r \in Reqs :
    /\ IsCreate(r) /\ req[r].written # None
    /\ req[r].written[1].id \in deleted
    /\ req[r].written[1].id \in DOMAIN events
    /\ events[req[r].written[1].id].created_at > RetentionDays

\* ------------------------------------------------------------------------
\* What get_event leaves alone (checked under SpecGet)
\* ------------------------------------------------------------------------
\* this step is taken by a get_event request
GetStep(r) ==
  /\ req'[r] # req[r]
  /\ IsGet(r) \/ req'[r].kind = "get"

\* C20: the get-event handler calls the adaptor's get_event and nothing
\* else: on the found, not-found and failure paths alike no step of it
\* creates or deletes an event, changes the event counter or writes
\* visited_at.
C20_GetEventReadOnly ==
  /\ [](\A r \in Reqs :
          IsGet(r) =>
            /\ req[r].calls <= 1
            /\ req[r].pc = "done" => req[r].calls = 1
            /\ req[r].deletes = 0
            /\ req[r].probes = 0
            /\ req[r].written = None)
  /\ [][\A r \in Reqs :
          GetStep(r) =>
            /\ events' = events
            /\ people' = people
            /\ event_count' = event_count
            /\ writes' = writes
            /\ deleted' = deleted]_vars

C20_Witness ==
  \E r \in Reqs :
    /\ IsGet(r) /\ req[r].pc = "done" /\ req[r].status = "Ok"
    /\ req[r].target \in DOMAIN events
    /\ events[req[r].target].visited_at < clock

\* ------------------------------------------------------------------------
\* Release of the handle and progress (checked under SpecLive)
\* ------------------------------------------------------------------------
Waiting(r) == req[r].pc = "lock"

\* r is inside the allocation loop of create_event
InLoop(r) == IsCreate(r) /\ req[r].pc = "probe"

\* a suffix for the slug of r's name is unused
SomeSuffixFree(r) == \E id \in generate_id(req[r].name) : id \notin DOMAIN events

\* the allocation loop of r cannot end by finding a free identifier
LoopStuck(r) == InLoop(r) /\ ~SomeSuffixFree(r)

\* every return of a handler, whatever its outcome, leaves the handle free
ReleasesOnExit ==
  /\ [](\A r \in Reqs : req[r].pc \in {"idle", "lock", "over"} => lock # r)
  /\ [][\A r \in Reqs :
          (req[r].pc = "done" /\ req'[r].pc = "over")
            => (lock' # r /\ (lock = r => lock' = NoHolder))]_vars

\* r waits for the handle behind a holder whose loop cannot end
Blocked(r) == Waiting(r) /\ \E q \in Reqs : LoopStuck(q) /\ lock = q

\* each request is unsent or answered, or goes round a loop no free suffix
\* can end, or waits behind such a loop
Settled ==
  \A r \in Reqs : req[r].pc \in {"idle", "over"} \/ LoopStuck(r) \/ Blocked(r)

\* no request waits for the handle for ever unless a holder's loop does not
\* end, no loop with an unused suffix goes on for ever, and every handler
\* that has its response returns: the requests come to rest in Settled
ComesToRest == <>[]Settled

\* a step that keeps r inside its loop keeps the handle with r
LoopKeepsHandle ==
  [][\A r \in Reqs : (InLoop(r) /\ InLoop(r)') => (lock = r /\ lock' = r)]_vars

\* C19 as stated: every handler releases the handle on every exit path; a
\* waiting request acquires it provided each holder's loop ends; the loop
\* ends when a suffix is unused; and while r is in its loop it keeps the
\* handle and no other request that has arrived takes a step.
C19_NoOtherRequestProgresses ==
  /\ ReleasesOnExit
  /\ ComesToRest
  /\ LoopKeepsHandle
  /\ [][\A r, q \in Reqs :
          (InLoop(r) /\ q # r /\ req[q].pc # "idle") => req'[q] = req[q]]_vars

\* C19 amended: as stated, except that while r is in its loop it is the
\* requests that need the handle that stand still: none of them acquires it
\* or calls the adaptor.  A cleanup request that its key check rejects needs
\* no handle and returns meanwhile.
C19_WaitersStandStill ==
  /\ ReleasesOnExit
  /\ ComesToRest
  /\ LoopKeepsHandle
  /\ [][\A r, q \in Reqs :
          (InLoop(r) /\ q # r /\ req'[q] # req[q])
            => /\ req'[q].pc \in {"lock", "done", "over"}
               /\ ~req'[q].held
               /\ req'[q].calls = 0
               /\ req'[q].pc \in {"done", "over"}
                    => (req[q].kind \in {"none", "cleanup"} /\ lock' = r)
               /\ req'[q].pc = "done" => req'[q].status = "NotAuthorized"]_vars

C19_Witness ==
  \E r, q \in Reqs :
    /\ LoopStuck(r) /\ req[r].hits = MaxRetries
    /\ lock = r
    /\ Waiting(q)

====
